---- MODULE Spec2Model ----
(***************************************************************************)
(* FRI commit and decommitment phases of fri_basic_rustling:               *)
(* polynome.rs (coefficient vectors, evaluation, beta-fold), channel.rs    *)
(* (transcript map, challenges, indices) and fri_code_layer.rs (coset      *)
(* domain, squared/halved domains, Merkle-committed layers, the commit     *)
(* ladder and the query phase).                                            *)
(*                                                                         *)
(* Field elements are residues modulo Modulus.  The program's modulus is   *)
(* the 255-bit BLS12-381 scalar prime; the model keeps the generator 7 and *)
(* scales the prime down to 97 (7 is a primitive root of 97, and           *)
(* 97 - 1 = 2^5 * 3).  For every domain size up to 12 the powers of the    *)
(* generator that the domain builder produces coincide modulo 97 exactly   *)
(* when they coincide in the program's field.                              *)
(***************************************************************************)
EXTENDS Integers, Sequences, FiniteSets, TLC

VARIABLES
    pc,                 \* position of the driver (main.rs / the tests)
    overflow_checks,    \* build profile: TRUE = usize arithmetic panics on overflow
    initial_poly,       \* fri_commit_phase argument
    domain_size,        \* fri_commit_phase / fri_decommitment_phase argument
    current_poly,       \* fri_commit_phase local
    current_domain,     \* fri_commit_phase local
    next_domain,        \* fri_commit_phase local: result of the last build_next_domain call
    fri_layer_list,     \* fri_commit_phase local, returned
    channel,            \* Channel.committed_merkle_root_by_challenge
    challenges,         \* the values get_challenge has returned, in order
    fold_self,          \* receiver of the last fold_with_beta call
    beta_challenge,     \* argument of the last fold_with_beta call
    fri_number_of_queries, \* fri_decommitment_phase argument
    fri_layers,         \* fri_decommitment_phase argument
    query_list,         \* fri_decommitment_phase result .0
    coef_index_queries  \* fri_decommitment_phase result .1

vars == <<pc, overflow_checks, initial_poly, domain_size, current_poly,
          current_domain, next_domain, fri_layer_list, channel, challenges, fold_self,
          beta_challenge, fri_number_of_queries, fri_layers, query_list,
          coef_index_queries>>

-----------------------------------------------------------------------------
(* Bounds of the model *)

\* longest coefficient vector given to new_poly
MaxCoefs == 4
\* largest domain size requested
MaxDomainSize == 5
\* layers built before a non-terminating ladder is cut off
MaxLayers == 3
\* largest number of queries requested
MaxQueries == 1
\* largest value get_index returns
MaxIndex == 3

-----------------------------------------------------------------------------
(* Field: field_provider_v1.rs *)

Modulus == 97
MULTIPLICATIVE_GENERATOR == 7

FieldElement == 0..(Modulus - 1)

\* FieldElement::from(u64)
FieldFrom(n) == n % Modulus

FAdd(a, b) == (a + b) % Modulus
FMul(a, b) == (a * b) % Modulus

\* Field::pow: x^0 = 1, including 0^0
RECURSIVE FPow(_, _)
FPow(x, e) == IF e = 0 THEN 1 ELSE FMul(x, FPow(x, e - 1))

\* width of the canonical representation, [u8; 32]
ReprWidth == 32

RECURSIVE shift_bytes(_, _)
shift_bytes(x, n) ==
    IF n = 0 \/ x = 0 THEN x ELSE shift_bytes(x \div 256, n - 1)

\* PrimeField::to_repr with PrimeFieldReprEndianness = "little":
\* byte i (counted from 0) is (x div 256^i) mod 256
to_repr(x) == [i \in 1..ReprWidth |-> shift_bytes(x, i - 1) % 256]

-----------------------------------------------------------------------------
(* Polynomials: polynome.rs.  A Polynome is its coefficient vector.        *)

RECURSIVE remove_zeroes(_)
remove_zeroes(coeffs) ==
    IF Len(coeffs) = 0 THEN <<>>
    ELSE IF coeffs[Len(coeffs)] = FieldFrom(0)
         THEN remove_zeroes(SubSeq(coeffs, 1, Len(coeffs) - 1))
         ELSE coeffs

\* Vec::resize(n, 0): pads with zeros, truncates when n is smaller
pad_with_zero_coefficients_to_length(pa, n) ==
    [i \in 1..n |-> IF i <= Len(pa) THEN pa[i] ELSE FieldFrom(0)]

new_poly(coefficients) == remove_zeroes(coefficients)

\* coefficients.len() - 1 on usize: the subtraction overflows on the empty
\* vector (DegreeOverflows); degree is the value when it does not
DegreeOverflows(poly) == Len(poly) = 0
degree(poly) == Len(poly) - 1

RECURSIVE evaluate_from(_, _, _, _, _)
evaluate_from(coefficients, x, i, result, power) ==
    IF i > Len(coefficients) THEN result
    ELSE evaluate_from(coefficients, x, i + 1,
                       FAdd(result, FMul(power, coefficients[i])),
                       FMul(power, x))

evaluate(poly, x) == evaluate_from(poly, x, 1, FieldFrom(0), FieldFrom(1))

evaluate_sliding(poly, input) ==
    [j \in 1..Len(input) |-> evaluate(poly, input[j])]

pad_with_zero_coefficients(pa, pb) ==
    IF Len(pa) > Len(pb)
    THEN <<pa, pad_with_zero_coefficients_to_length(pb, Len(pa))>>
    ELSE <<pad_with_zero_coefficients_to_length(pa, Len(pb)), pb>>

\* fold_with_beta with the zero padding left out: the sum stops at the
\* shorter of the two trimmed halves
fold_with_beta_unpadded(poly, beta) ==
    LET even_poly == new_poly([i \in 1..((Len(poly) + 1) \div 2) |-> poly[2 * i - 1]])
        odd_poly  == new_poly([i \in 1..(Len(poly) \div 2) |-> FMul(poly[2 * i], beta)])
    IN new_poly([i \in 1..Len(even_poly) |->
                    IF i <= Len(odd_poly)
                    THEN FAdd(even_poly[i], odd_poly[i])
                    ELSE even_poly[i]])

\* fold_with_beta that does not trim the trailing zeros of the sum
fold_with_beta_untrimmed(poly, beta) ==
    LET even_coefs == [i \in 1..((Len(poly) + 1) \div 2) |-> poly[2 * i - 1]]
        odd_coefs_betarized ==
            [i \in 1..(Len(poly) \div 2) |-> FMul(poly[2 * i], beta)]
        padded == pad_with_zero_coefficients(new_poly(even_coefs),
                                             new_poly(odd_coefs_betarized))
    IN [i \in 1..Len(padded[1]) |->
            IF i <= Len(padded[2])
            THEN FAdd(padded[1][i], padded[2][i])
            ELSE padded[1][i]]

fold_with_beta(poly, beta) ==
    LET even_coefs == [i \in 1..((Len(poly) + 1) \div 2) |-> poly[2 * i - 1]]
        odd_coefs_betarized ==
            [i \in 1..(Len(poly) \div 2) |-> FMul(poly[2 * i], beta)]
        padded == pad_with_zero_coefficients(new_poly(even_coefs),
                                             new_poly(odd_coefs_betarized))
        even_poly == padded[1]
        odd_poly  == padded[2]
        new_coefs == [i \in 1..Len(even_poly) |->
                        IF i <= Len(odd_poly)
                        THEN FAdd(even_poly[i], odd_poly[i])
                        ELSE even_poly[i]]
    IN new_poly(new_coefs)

-----------------------------------------------------------------------------
(* Merkle commitment: rs_merkle::MerkleTree<Sha256> as used by             *)
(* fri_code_layer.rs.  A digest is a term: Sha256 is taken to be           *)
(* collision free, so two digests are equal exactly when their preimages   *)
(* are.  A leaf digest is <<bytes>>, an inner digest is <<left, right>>.   *)

None == <<>>
Some(x) == <<x>>

\* Sha256::hash(x.to_repr())
Sha256_hash(bytes) == <<bytes>>

\* Sha256::concat_and_hash(left, Some(right))
concat_and_hash(left, right) == <<left, right>>

\* build_merkle_tree: the committed tree is determined by its leaves
build_merkle_tree(values) ==
    [j \in 1..Len(values) |-> Sha256_hash(to_repr(values[j]))]

\* one level up: nodes are paired left to right, a last node without a
\* sibling is carried up unchanged
parent_level(nodes) ==
    [j \in 1..((Len(nodes) + 1) \div 2) |->
        IF 2 * j <= Len(nodes)
        THEN concat_and_hash(nodes[2 * j - 1], nodes[2 * j])
        ELSE nodes[2 * j - 1]]

RECURSIVE merkle_root(_)
merkle_root(nodes) ==
    IF Len(nodes) = 1 THEN nodes[1] ELSE merkle_root(parent_level(nodes))

\* MerkleTree::root_hex: None for the tree without leaves.  The hex
\* rendering is one-to-one on digests and is not represented.
root_hex(merkle_tree) ==
    IF Len(merkle_tree) = 0 THEN None ELSE Some(merkle_root(merkle_tree))

\* MerkleTree::proof(&[index]).proof_hashes(): the sibling digests on the way
\* from leaf `index` (counted from 0) to the root; a level where the node
\* has no sibling contributes nothing
RECURSIVE proof_hashes(_, _)
proof_hashes(nodes, index) ==
    IF Len(nodes) <= 1 THEN <<>>
    ELSE LET sibling == IF index % 2 = 0 THEN index + 1 ELSE index - 1
         IN (IF sibling < Len(nodes) THEN <<nodes[sibling + 1]>> ELSE <<>>)
            \o proof_hashes(parent_level(nodes), index \div 2)

-----------------------------------------------------------------------------
(* Channel: channel.rs.  The transcript is a function from the keys        *)
(* inserted so far to Option<String>.                                      *)

Channel_new == [k \in {} |-> None]

\* HashMap::insert: a key already present is overwritten
add_committed_data(ch, key, merkel_root) ==
    [k \in (DOMAIN ch) \cup {key} |-> IF k = key THEN merkel_root ELSE ch[k]]

\* .get(..).cloned().flatten()
Channel_get_merkle_root(ch, key) ==
    IF key \in DOMAIN ch THEN ch[key] ELSE None

-----------------------------------------------------------------------------
(* Domains and layers: fri_code_layer.rs *)

\* (2u64.pow(30) * 3) % domain_size; the product does not overflow u64 and
\* is reduced here factor by factor: ((2^30 mod n) * 3) mod n
coset_offset_exponent(n) == ((1073741824 % n) * 3) % n

generate_enlarged_evaluation_domain(n) ==
    LET g == MULTIPLICATIVE_GENERATOR
        coset_offset == FPow(g, coset_offset_exponent(n))
        coset == [i \in 1..n |-> FPow(coset_offset, i - 1)]
    IN [i \in 1..n |-> FMul(g, coset[i])]

evaluate_on_enlarged_domain(poly, dom) == evaluate_sliding(poly, dom)

\* build_next_domain with the half rounded up
build_next_domain_rounds_up(domain) ==
    LET stop_index == (Len(domain) + 1) \div 2
    IN [j \in 1..stop_index |-> FPow(domain[j], 2)]

build_next_domain(domain) ==
    LET stop_index == Len(domain) \div 2
    IN [j \in 1..stop_index |-> FPow(domain[j], 2)]

\* FriCodeLayer::new
FriCodeLayer_new(poly, dom) ==
    LET eval == evaluate_on_enlarged_domain(poly, dom)
    IN [evaluation |-> eval, domain |-> dom, merkle_tree |-> build_merkle_tree(eval)]

\* FriCodeLayer::get_merkle_root
get_merkle_root(layer) == root_hex(layer.merkle_tree)

-----------------------------------------------------------------------------
(* Inputs *)

\* coefficient values of the initial polynomial
Coefs == {0, 1, Modulus - 1}

\* the polynomials the driver builds with Polynome::new_poly
InputPolys ==
    {new_poly(c) : c \in UNION {[1..n -> Coefs] : n \in 0..MaxCoefs}}

\* values of Channel::get_challenge, FieldElement::from(random u64)
Challenges == {FieldFrom(0), FieldFrom(1)}

\* values of Channel::get_index
Indices == 0..MaxIndex

-----------------------------------------------------------------------------
(* fri_commit_phase *)

Init ==
    /\ pc = "start"
    /\ overflow_checks \in BOOLEAN
    /\ initial_poly \in InputPolys
    /\ domain_size \in 0..MaxDomainSize
    /\ current_poly = <<>>
    /\ current_domain = <<>>
    /\ next_domain = <<>>
    /\ fri_layer_list = <<>>
    /\ channel = Channel_new
    /\ challenges = <<>>
    /\ fold_self = <<>>
    /\ beta_challenge = FieldFrom(0)
    /\ fri_number_of_queries = 0
    /\ fri_layers = <<>>
    /\ query_list = <<>>
    /\ coef_index_queries = <<>>

\* Lines 107-130, up to the loop.  initial_poly.degree() on the empty
\* polynomial overflows: a panic with overflow checks, and without them
\* Vec::with_capacity(2^63) panics with a capacity overflow.  A domain size of
\* 0 panics on the remainder by zero in generate_enlarged_evaluation_domain.
CommitSetup ==
    /\ pc = "start"
    /\ IF DegreeOverflows(initial_poly) \/ domain_size = 0
       THEN /\ pc' = "commit_panic"
            /\ UNCHANGED <<current_poly, current_domain, fri_layer_list, channel>>
       ELSE LET initial_domain == generate_enlarged_evaluation_domain(domain_size)
                current_layer == FriCodeLayer_new(initial_poly, initial_domain)
            IN /\ fri_layer_list' = <<current_layer>>
               /\ current_poly' = initial_poly
               /\ current_domain' = initial_domain
               /\ channel' = add_committed_data(channel, FieldFrom(0),
                                                root_hex(current_layer.merkle_tree))
               /\ pc' = "commit_loop"
    /\ UNCHANGED <<overflow_checks, initial_poly, domain_size, challenges,
                   next_domain, fold_self, beta_challenge, fri_number_of_queries,
                   fri_layers, query_list, coef_index_queries>>

\* the loop condition written as degree > 1: the ladder stops one fold early
LoopCondition_stops_early(poly) ==
    IF DegreeOverflows(poly) THEN ~overflow_checks ELSE degree(poly) > 1

\* while current_poly.degree() > 0: without overflow checks the degree of the
\* empty polynomial wraps to usize::MAX, which is > 0
LoopCondition(poly) ==
    IF DegreeOverflows(poly) THEN ~overflow_checks ELSE degree(poly) > 0

\* One iteration of the loop body, lines 132-162
CommitFold ==
    /\ pc = "commit_loop"
    /\ LoopCondition(current_poly)
    /\ Len(fri_layer_list) < MaxLayers
    /\ \E beta \in Challenges :
          LET next_poly == fold_with_beta(current_poly, beta)
              current_layer == FriCodeLayer_new(next_poly, next_domain')
          IN /\ next_domain' = build_next_domain(current_domain)
             /\ challenges' = Append(challenges, beta)
             /\ beta_challenge' = beta
             /\ fold_self' = current_poly
             /\ channel' = add_committed_data(channel, beta,
                                              get_merkle_root(current_layer))
             /\ fri_layer_list' = Append(fri_layer_list, current_layer)
             /\ current_poly' = next_poly
             /\ current_domain' = next_domain'
    /\ UNCHANGED <<pc, overflow_checks, initial_poly, domain_size,
                   fri_number_of_queries, fri_layers, query_list,
                   coef_index_queries>>

\* current_poly.degree() on the empty polynomial, overflow checks on
CommitDegreePanic ==
    /\ pc = "commit_loop"
    /\ DegreeOverflows(current_poly)
    /\ overflow_checks
    /\ pc' = "commit_panic"
    /\ UNCHANGED <<overflow_checks, initial_poly, domain_size, current_poly,
                   current_domain, next_domain, fri_layer_list, channel, challenges,
                   fold_self, beta_challenge, fri_number_of_queries,
                   fri_layers, query_list, coef_index_queries>>

\* Loop exit and return (last_poly, fri_layer_list), lines 164-166
CommitReturn ==
    /\ pc = "commit_loop"
    /\ ~LoopCondition(current_poly)
    /\ ~DegreeOverflows(current_poly)
    /\ pc' = "commit_done"
    /\ UNCHANGED <<overflow_checks, initial_poly, domain_size, current_poly,
                   current_domain, next_domain, fri_layer_list, channel, challenges,
                   fold_self, beta_challenge, fri_number_of_queries,
                   fri_layers, query_list, coef_index_queries>>

-----------------------------------------------------------------------------
(* fri_decommitment_phase *)

\* the positions opened in a layer for query index i (counted from 0)
layer_index(i, layer) == i % Len(layer.domain)
\* index_sym computed with the whole domain size as the offset
layer_index_sym_full_offset(i, layer) ==
    (i + Len(layer.domain)) % Len(layer.domain)

layer_index_sym(i, layer) ==
    (i + Len(layer.domain) \div 2) % Len(layer.domain)

\* the closure body, lines 183-217
FriDecommitment(i, layers) ==
    [layers_evaluations |->
        [l \in 1..Len(layers) |->
            layers[l].evaluation[layer_index(i, layers[l]) + 1]],
     layers_auth_paths |->
        [l \in 1..Len(layers) |->
            proof_hashes(layers[l].merkle_tree, layer_index(i, layers[l]))],
     layers_evaluations_sym |->
        [l \in 1..Len(layers) |->
            layers[l].evaluation[layer_index_sym(i, layers[l]) + 1]],
     layers_auth_paths_sym |->
        [l \in 1..Len(layers) |->
            proof_hashes(layers[l].merkle_tree, layer_index_sym(i, layers[l]))]]

\* The whole call, lines 170-224, on the layers fri_commit_phase returned or
\* on an empty list.  (0..q) is empty for q <= 0; get_index is called once
\* per query.  A layer with an empty domain makes `i % dom_size` a remainder
\* by zero.
Decommit ==
    /\ pc = "commit_done"
    /\ \E q \in (-1)..MaxQueries, layers \in {fri_layer_list, <<>>} :
          /\ fri_number_of_queries' = q
          /\ fri_layers' = layers
          /\ IF layers = <<>>
             THEN /\ query_list' = <<>>
                  /\ coef_index_queries' = <<>>
                  /\ pc' = "decommit_done"
             ELSE \E draws \in [1..(IF q > 0 THEN q ELSE 0) -> Indices] :
                  LET queries == [j \in DOMAIN draws |-> draws[j] % domain_size]
                  IN IF /\ Len(queries) > 0
                        /\ \E l \in 1..Len(layers) : Len(layers[l].domain) = 0
                     THEN /\ pc' = "decommit_panic"
                          /\ UNCHANGED <<query_list, coef_index_queries>>
                     ELSE /\ coef_index_queries' = queries
                          /\ query_list' =
                                [j \in DOMAIN queries |->
                                    FriDecommitment(queries[j], layers)]
                          /\ pc' = "decommit_done"
    /\ UNCHANGED <<overflow_checks, initial_poly, domain_size, current_poly,
                   current_domain, next_domain, fri_layer_list, channel, challenges,
                   fold_self, beta_challenge>>

Next ==
    \/ CommitSetup
    \/ CommitFold
    \/ CommitDegreePanic
    \/ CommitReturn
    \/ Decommit

Spec == Init /\ [][Next]_vars

-----------------------------------------------------------------------------
(* fold_with_beta on its own: a polynomial, one call, its result *)

InitFold ==
    /\ pc = "fold_call"
    /\ overflow_checks = TRUE
    /\ fold_self \in InputPolys
    /\ initial_poly = fold_self
    /\ domain_size = 0
    /\ current_poly = <<>>
    /\ current_domain = <<>>
    /\ next_domain = <<>>
    /\ fri_layer_list = <<>>
    /\ channel = Channel_new
    /\ challenges = <<>>
    /\ beta_challenge = FieldFrom(0)
    /\ fri_number_of_queries = 0
    /\ fri_layers = <<>>
    /\ query_list = <<>>
    /\ coef_index_queries = <<>>

FoldCall ==
    /\ pc = "fold_call"
    /\ \E beta \in FieldElement :
          /\ beta_challenge' = beta
          /\ current_poly' = fold_with_beta(fold_self, beta)
    /\ pc' = "fold_return"
    /\ UNCHANGED <<overflow_checks, initial_poly, domain_size, current_domain,
                   next_domain,
                   fri_layer_list, channel, challenges, fold_self,
                   fri_number_of_queries, fri_layers, query_list,
                   coef_index_queries>>

NextFold == FoldCall

SpecFold == InitFold /\ [][NextFold]_vars

-----------------------------------------------------------------------------
(* Properties of fold_with_beta, checked under SpecFold *)

\* coefficient of X^i (i from 0), zero beyond the vector
CoefAt(poly, i) == IF i + 1 <= Len(poly) THEN poly[i + 1] ELSE 0

\* sum over j >= 0 of poly[first + 2j] * y^j, by explicit powers
RECURSIVE part_sum(_, _, _, _)
part_sum(poly, y, first, j) ==
    IF first + 2 * j > Len(poly) THEN 0
    ELSE FAdd(FMul(poly[first + 2 * j], FPow(y, j)),
              part_sum(poly, y, first, j + 1))

\* P_e(y) and P_o(y): the polynomials of the even- and odd-indexed coefficients
EvenPart(poly, y) == part_sum(poly, y, 1, 0)
OddPart(poly, y) == part_sum(poly, y, 2, 0)

\* e_i + beta * o_i, a missing coefficient counted as zero, trailing zeros trimmed
ExpectedFold(poly, beta) ==
    remove_zeroes([i \in 1..((Len(poly) + 1) \div 2) |->
                      FAdd(CoefAt(poly, 2 * i - 2),
                           FMul(beta, CoefAt(poly, 2 * i - 1)))])

\* the sum a_(d-1) + beta * a_d that becomes the top coefficient of the fold
\* of a polynomial of odd degree d
FoldedLead(poly, beta) ==
    FAdd(poly[Len(poly) - 1], FMul(beta, poly[Len(poly)]))

\* C3 as stated: for every non-zero normalized polynomial P and every beta,
\* fold_with_beta(beta) has degree floor(degree(P) / 2).
C3_FoldDegreeIsHalf ==
    (pc = "fold_return" /\ fold_self # <<>>) =>
        /\ ~DegreeOverflows(current_poly)
        /\ degree(current_poly) = degree(fold_self) \div 2

\* C3 amended: the fold of a non-zero normalized polynomial of degree d has at
\* most floor(d/2) + 1 coefficients (it may have none), and its degree is
\* floor(d/2) exactly when d is even or a_(d-1) + beta * a_d is not zero.
C3_FoldDegreeAtMostHalf ==
    (pc = "fold_return" /\ fold_self # <<>>) =>
        LET d == degree(fold_self)
        IN /\ Len(current_poly) <= d \div 2 + 1
           /\ (Len(current_poly) = d \div 2 + 1) <=>
                 (d % 2 = 0 \/ FoldedLead(fold_self, beta_challenge) # 0)

\* a fold of a cubic by a non-zero beta whose top coefficient survives
C3_Witness ==
    /\ pc = "fold_return"
    /\ Len(fold_self) = 4
    /\ beta_challenge # 0
    /\ FoldedLead(fold_self, beta_challenge) # 0
    /\ Len(current_poly) = 2

\* C4: for every P, beta and x, fold_with_beta(beta) evaluated at x^2 equals
\* P_e(x^2) + beta * P_o(x^2), and the folded coefficients are e_i + beta * o_i
\* (a missing coefficient counted as zero) with trailing zeros trimmed.
C4_FoldIdentity ==
    pc = "fold_return" =>
        /\ current_poly = ExpectedFold(fold_self, beta_challenge)
        /\ \A x \in FieldElement :
              evaluate(current_poly, FMul(x, x)) =
                  FAdd(EvenPart(fold_self, FMul(x, x)),
                       FMul(beta_challenge, OddPart(fold_self, FMul(x, x))))

\* a fold where the trimmed even half is shorter than the odd half
C4_Witness ==
    /\ pc = "fold_return"
    /\ fold_self = <<1, 0, 0, 1>>
    /\ beta_challenge = 5
    /\ current_poly = <<1, 5>>

-----------------------------------------------------------------------------
(* Properties of fri_commit_phase, checked under Spec *)

RECURSIVE Pow2(_)
Pow2(k) == IF k = 0 THEN 1 ELSE 2 * Pow2(k - 1)

\* ceil(log2(n)) for n >= 1
CeilLog2(n) == CHOOSE k \in 0..n : Pow2(k) >= n /\ \A j \in 0..(k - 1) : Pow2(j) < n

\* the polynomial after the first k challenges
RECURSIVE LadderPoly(_)
LadderPoly(k) ==
    IF k = 0 THEN initial_poly
    ELSE fold_with_beta(LadderPoly(k - 1), challenges[k])

\* no fold so far lost more than half of the degree
NoCancellation ==
    \A k \in 1..Len(challenges) :
        /\ LadderPoly(k) # <<>>
        /\ degree(LadderPoly(k)) = degree(LadderPoly(k - 1)) \div 2

Returned == pc \in {"commit_done", "decommit_done", "decommit_panic"}

\* C1: for every non-zero initial polynomial, every N >= 1 and every sequence
\* of challenges, the ladder does not fail, its loop reaches a polynomial of
\* degree 0 and exits, and the polynomial returned has exactly one coefficient.
C1_CommitEndsWithConstant ==
    (initial_poly # <<>> /\ domain_size >= 1) =>
        /\ pc # "commit_panic"
        /\ pc = "commit_loop" => ~DegreeOverflows(current_poly)
        /\ Returned => Len(current_poly) = 1

\* C2 as stated: fri_commit_phase performs exactly ceil(log2(d + 1)) folds and
\* returns that number plus one layers.
C2_ExactFoldCount ==
    pc = "commit_done" =>
        /\ Len(challenges) = CeilLog2(degree(initial_poly) + 1)
        /\ Len(fri_layer_list) = CeilLog2(degree(initial_poly) + 1) + 1

\* C2 amended: when fri_commit_phase returns it has performed at most
\* ceil(log2(d + 1)) folds, exactly that many when no fold cancelled the
\* leading coefficient, and the layer list holds one layer more than the folds.
C2_FoldCountAtMost ==
    pc = "commit_done" =>
        /\ Len(fri_layer_list) = Len(challenges) + 1
        /\ Len(challenges) <= CeilLog2(degree(initial_poly) + 1)
        /\ NoCancellation =>
              Len(challenges) = CeilLog2(degree(initial_poly) + 1)

\* a cubic folded twice without cancellation
C2_Witness ==
    /\ pc = "commit_done"
    /\ degree(initial_poly) = 3
    /\ NoCancellation
    /\ Len(challenges) = 2
    /\ Len(fri_layer_list) = 3

\* the initial domain, once the first layer exists
HasInitialLayer == Len(fri_layer_list) >= 1
InitialDomain == fri_layer_list[1].domain

\* C5: for every N and every 0 <= i < N/2 the initial domain satisfies
\* D[i]^2 = D[i + N/2]^2.
C5_DomainSymmetry ==
    HasInitialLayer =>
        LET D == InitialDomain
            half == Len(D) \div 2
        IN \A i \in 0..(half - 1) :
              FPow(D[i + 1], 2) = FPow(D[i + half + 1], 2)

\* C6: for every positive N the initial domain has exactly N elements, all
\* non-zero and pairwise distinct.
C6_DomainDistinctNonZero ==
    HasInitialLayer =>
        LET D == InitialDomain
        IN /\ Len(D) = domain_size
           /\ \A i \in 1..Len(D) : D[i] # 0
           /\ \A i, j \in 1..Len(D) : i # j => D[i] # D[j]

\* C7: after fri_commit_phase returns, the transcript maps the field zero to
\* the root of L0 and each challenge beta_k to the root of L_k.
C7_TranscriptKeys ==
    Returned =>
        /\ Channel_get_merkle_root(channel, FieldFrom(0)) =
              get_merkle_root(fri_layer_list[1])
        /\ \A k \in 1..Len(challenges) :
              Channel_get_merkle_root(channel, challenges[k]) =
                  get_merkle_root(fri_layer_list[k + 1])

\* C9: fri_commit_phase does not hand back a layer list that contains a layer
\* with an empty domain.
C9_NoEmptyLayerReturned ==
    Returned =>
        \A l \in 1..Len(fri_layer_list) : Len(fri_layer_list[l].domain) >= 1

-----------------------------------------------------------------------------
(* Properties of fri_decommitment_phase, checked under Spec *)

\* C8: in every bundle and for every layer the authentication path of the
\* queried index is non-empty and starts with the leaf hash of the evaluation
\* revealed for that index.
C8_AuthPathStartsWithLeaf ==
    pc = "decommit_done" =>
        \A j \in 1..Len(query_list) : \A l \in 1..Len(fri_layers) :
            LET path == query_list[j].layers_auth_paths[l]
                revealed == query_list[j].layers_evaluations[l]
            IN /\ Len(path) >= 1
               /\ path[1] = Sha256_hash(to_repr(revealed))

\* C10: for a non-empty layer list of m layers and q >= 0 queries the call
\* returns q bundles and q indices, every index below N, every bundle with
\* four sequences of m entries; for an empty layer list both outputs are empty.
C10_DecommitShape ==
    (pc \in {"decommit_done", "decommit_panic"} /\ fri_number_of_queries >= 0) =>
        /\ pc = "decommit_done"
        /\ IF fri_layers = <<>>
           THEN query_list = <<>> /\ coef_index_queries = <<>>
           ELSE /\ Len(query_list) = fri_number_of_queries
                /\ Len(coef_index_queries) = fri_number_of_queries
                /\ \A j \in 1..Len(coef_index_queries) :
                      coef_index_queries[j] < domain_size
                /\ \A j \in 1..Len(query_list) :
                      /\ Len(query_list[j].layers_evaluations) = Len(fri_layers)
                      /\ Len(query_list[j].layers_auth_paths) = Len(fri_layers)
                      /\ Len(query_list[j].layers_evaluations_sym) = Len(fri_layers)
                      /\ Len(query_list[j].layers_auth_paths_sym) = Len(fri_layers)

-----------------------------------------------------------------------------
(* build_next_domain on its own: a domain, one call, its result *)

\* values of the points of the domains handed to build_next_domain
DomainPoints == {0, 1, MULTIPLICATIVE_GENERATOR, Modulus - 1}

InputDomains == UNION {[1..n -> DomainPoints] : n \in 0..MaxDomainSize}

InitDomain ==
    /\ pc = "domain_call"
    /\ overflow_checks = TRUE
    /\ current_domain \in InputDomains
    /\ next_domain = <<>>
    /\ initial_poly = <<>>
    /\ domain_size = 0
    /\ current_poly = <<>>
    /\ fri_layer_list = <<>>
    /\ channel = Channel_new
    /\ challenges = <<>>
    /\ fold_self = <<>>
    /\ beta_challenge = FieldFrom(0)
    /\ fri_number_of_queries = 0
    /\ fri_layers = <<>>
    /\ query_list = <<>>
    /\ coef_index_queries = <<>>

\* let next_domain = build_next_domain(&current_domain)
BuildNextDomainCall ==
    /\ pc = "domain_call"
    /\ next_domain' = build_next_domain(current_domain)
    /\ pc' = "domain_return"
    /\ UNCHANGED <<overflow_checks, initial_poly, domain_size, current_poly,
                   current_domain, fri_layer_list, channel, challenges,
                   fold_self, beta_challenge, fri_number_of_queries,
                   fri_layers, query_list, coef_index_queries>>

NextDomain == BuildNextDomainCall

SpecDomain == InitDomain /\ [][NextDomain]_vars

\* C11: for every domain D, build_next_domain(D) returns a sequence of length
\* floor(|D|/2) whose j-th entry is D[j]^2, and it leaves D unchanged.
C11_NextDomainSquaresFirstHalf ==
    [][pc = "domain_call" =>
          /\ current_domain' = current_domain
          /\ Len(next_domain') = Len(current_domain) \div 2
          /\ \A j \in 1..(Len(current_domain) \div 2) :
                next_domain'[j] = FMul(current_domain[j], current_domain[j])]_vars

\* a five-point domain halved to the squares of its first two points
C11_Witness ==
    /\ pc = "domain_return"
    /\ current_domain = <<MULTIPLICATIVE_GENERATOR, Modulus - 1, 0, 1, 1>>
    /\ next_domain = <<49, 1>>

-----------------------------------------------------------------------------
(* The positions a query opens, checked under Spec *)

\* C12: for every query index i and every pair of consecutive layers l, l+1,
\* the two domain points of layer l opened by the query square to the same
\* value, and that value is the domain point of layer l+1 at the position the
\* query opens there.
C12_TwinsSquareToNextPoint ==
    pc = "decommit_done" =>
        \A j \in 1..Len(coef_index_queries) : \A l \in 1..(Len(fri_layers) - 1) :
            LET i == coef_index_queries[j]
                point == fri_layers[l].domain[layer_index(i, fri_layers[l]) + 1]
                point_sym ==
                    fri_layers[l].domain[layer_index_sym(i, fri_layers[l]) + 1]
                next_point ==
                    fri_layers[l + 1].domain[layer_index(i, fri_layers[l + 1]) + 1]
            IN /\ FMul(point, point) = FMul(point_sym, point_sym)
               /\ FMul(point, point) = next_point

\* C13: for every query index i and every layer with M >= 1 points, the call
\* opens idx = i mod M and idx_sym = (idx + floor(M/2)) mod M, both in [0, M);
\* the two evaluations (and authentication paths) it emits are the layer's at
\* exactly those positions, and idx_sym differs from idx whenever M >= 2.
C13_OpenedPositions ==
    pc = "decommit_done" =>
        \A j \in 1..Len(query_list) : \A l \in 1..Len(fri_layers) :
            LET i == coef_index_queries[j]
                layer == fri_layers[l]
                M == Len(layer.domain)
                idx == i % M
                idx_sym == (idx + M \div 2) % M
                bundle == query_list[j]
            IN /\ M >= 1
               /\ layer_index(i, layer) = idx
               /\ layer_index_sym(i, layer) = idx_sym
               /\ idx \in 0..(M - 1)
               /\ idx_sym \in 0..(M - 1)
               /\ M >= 2 => idx_sym # idx
               /\ bundle.layers_evaluations[l] = layer.evaluation[idx + 1]
               /\ bundle.layers_evaluations_sym[l] = layer.evaluation[idx_sym + 1]
               /\ bundle.layers_auth_paths[l] =
                     proof_hashes(layer.merkle_tree, idx)
               /\ bundle.layers_auth_paths_sym[l] =
                     proof_hashes(layer.merkle_tree, idx_sym)

\* a query whose symmetric position wraps around in a five-point layer and
\* reveals two different evaluations there
C13_Witness ==
    /\ pc = "decommit_done"
    /\ Len(query_list) = 1
    /\ coef_index_queries = <<3>>
    /\ Len(fri_layers) >= 2
    /\ Len(fri_layers[1].domain) = 5
    /\ query_list[1].layers_evaluations_sym[1] = fri_layers[1].evaluation[1]
    /\ query_list[1].layers_evaluations[1] # query_list[1].layers_evaluations_sym[1]

====
